---- MODULE Spec2Model ----
(***************************************************************************)
(* A model of lib/XMLHttpRequest.js: the readiness state machine, the      *)
(* event dispatch, the request header table, the asynchronous network and  *)
(* local-file transports with their callbacks, and the synchronous bridge  *)
(* (sentinel file, content file, worker process).                          *)
(*                                                                         *)
(* The object's closure variables and public fields are the fields of the  *)
(* record xhr.  xhr.log is the record of what the last step did, in order: *)
(* readyState assignments, dispatchEvent calls, callbacks invoked inline   *)
(* and callbacks deferred with setTimeout.  xhr.timers is the queue of     *)
(* setTimeout(..., 0) callbacks not yet run.                               *)
(***************************************************************************)
EXTENDS Integers, Sequences, FiniteSets, TLC

\* Bounds of the model.
MaxTransfers == 2
MaxListeners == 1
MaxTimers == 4
MaxBytes == 2

\* lib/XMLHttpRequest.js:114-118
UNSENT == 0
OPENED == 1
HEADERS_RECEIVED == 2
LOADING == 3
DONE == 4

\* this.status = null (line 134) is kept apart from every numeric status.
NullStatus == -1000
\* errno of a failed file read (ENOENT), passed to handleError at 422 and 438.
ENOENT == -2

Events == {"readystatechange", "loadstart", "load", "error", "abort", "loadend"}
\* The event names user code registers callbacks for in this model.
RegEvents == {"readystatechange", "loadend"}
Callbacks == {"f"}
NoCallback == "null"

Methods == {"GET", "POST", "TRACE"}
forbiddenRequestMethods == {"TRACE", "TRACK", "CONNECT"}
\* URL schemes as Url.parse(settings.url).protocol reports them.
Schemes == {"http:", "file:", "ftp:"}

\* Header names are sequences of characters, so that toLowerCase is computed.
Upper == <<"A","B","C","D","E","F","G","H","I","J","K","L","M",
           "N","O","P","Q","R","S","T","U","V","W","X","Y","Z">>
Lower == <<"a","b","c","d","e","f","g","h","i","j","k","l","m",
           "n","o","p","q","r","s","t","u","v","w","x","y","z">>

LowerChar(c) ==
  IF \E i \in 1..26 : Upper[i] = c
  THEN Lower[CHOOSE i \in 1..26 : Upper[i] = c]
  ELSE c

toLowerCase(s) == [i \in 1..Len(s) |-> LowerChar(s[i])]

H_UserAgent == <<"U","s","e","r","-","A","g","e","n","t">>
H_Accept == <<"A","c","c","e","p","t">>
H_Host == <<"H","o","s","t">>
H_host == <<"h","o","s","t">>
H_ContentLength == <<"C","o","n","t","e","n","t","-","L","e","n","g","t","h">>
H_contentlength == <<"c","o","n","t","e","n","t","-","l","e","n","g","t","h">>
H_XTest == <<"X","-","T","e","s","t">>
H_Via == <<"V","I","A">>

\* lib/XMLHttpRequest.js:71-92 (the entries the model's names can reach).
forbiddenRequestHeaders ==
  { H_host, H_contentlength, <<"v","i","a">>, <<"t","e">>,
    <<"d","a","t","e">>, <<"c","o","o","k","i","e">> }

defaultHeaders ==
  [h \in {H_UserAgent, H_Accept} |->
     IF h = H_UserAgent THEN "node-XMLHttpRequest" ELSE "*/*"]

\* headers[name] = value on a JavaScript object.
SetHeader(h, name, value) ==
  [n \in (DOMAIN h) \cup {name} |-> IF n = name THEN value ELSE h[n]]

\* ---------------------------------------------------------------- bytes and strings

\* The byte values file contents and HTTP bodies are made of: NUL, the
\* quote, a letter, a continuation byte, the lead byte of a two-byte
\* sequence (195 169 is U+00E9) and a byte no UTF-8 sequence contains.
ByteValues == {0, 34, 65, 169, 195, 255}
ByteSeqs == UNION {[1..n -> ByteValues] : n \in 0..MaxBytes}

\* A Buffer is a view of length bytes at byteOffset offset of the
\* ArrayBuffer store (buf.buffer).
ExactBuffer(bytes) == [store |-> bytes, offset |-> 0, length |-> Len(bytes)]
\* A Buffer cut from a larger allocation (node's pool).
PooledBuffer(bytes) == [store |-> <<0>> \o bytes \o <<0>>, offset |-> 1, length |-> Len(bytes)]
BufferBytes(buf) == [k \in 1..buf.length |-> buf.store[buf.offset + k]]
Layout(buf) == IF buf.length = Len(buf.store) THEN "exact" ELSE "pooled"
\* What fs.readFile and fs.readFileSync can return.
FileBuffers == {ExactBuffer(b) : b \in ByteSeqs} \cup {PooledBuffer(b) : b \in ByteSeqs}
DefaultFile == ExactBuffer(<<65>>)
DefaultBody == <<65>>

checkAndShrinkBuffer_Whole(buf) == buf.store

\* lib/XMLHttpRequest.js:227-235: the ArrayBuffer of exactly the bytes of buf.
checkAndShrinkBuffer(buf) ==
  IF buf.length = Len(buf.store)
  THEN buf.store
  ELSE [k \in 1..buf.length |-> buf.store[buf.offset + k]]

\* lib/XMLHttpRequest.js:187-198: a Uint8Array over a new ArrayBuffer.
RECURSIVE Flatten(_)
Flatten(bufferArray) ==
  IF bufferArray = <<>> THEN <<>>
  ELSE BufferBytes(Head(bufferArray)) \o Flatten(Tail(bufferArray))
concat(bufferArray) == ExactBuffer(Flatten(bufferArray))

\* A string is the sequence of its character codes.  In a JSON text the
\* escape sequence of the character c, which is ASCII, is the one item -(c+1).
IsContinuation(b) == b >= 128 /\ b <= 191

\* Buffer.prototype.toString('utf8') and the 'utf8' of fs.readFileSync:
\* a byte that is part of no well-formed sequence becomes U+FFFD.
RECURSIVE Utf8Decode(_)
Utf8Decode(b) ==
  IF b = <<>> THEN <<>>
  ELSE IF b[1] < 128 THEN <<b[1]>> \o Utf8Decode(Tail(b))
  ELSE IF b[1] >= 194 /\ b[1] <= 223 /\ Len(b) >= 2 /\ IsContinuation(b[2])
  THEN <<(b[1] - 192) * 64 + (b[2] - 128)>> \o Utf8Decode(SubSeq(b, 3, Len(b)))
  ELSE IF b[1] >= 224 /\ b[1] <= 239 /\ Len(b) >= 3
          /\ IsContinuation(b[2]) /\ IsContinuation(b[3])
  THEN <<(b[1] - 224) * 4096 + (b[2] - 128) * 64 + (b[3] - 128)>>
         \o Utf8Decode(SubSeq(b, 4, Len(b)))
  ELSE <<65533>> \o Utf8Decode(Tail(b))

\* The 'utf8' of fs.writeFileSync, for characters of the basic plane.
RECURSIVE Utf8Encode(_)
Utf8Encode(str) ==
  IF str = <<>> THEN <<>>
  ELSE LET c == str[1] IN
       (IF c < 128 THEN <<c>>
        ELSE IF c < 2048 THEN <<192 + (c \div 64), 128 + (c % 64)>>
        ELSE <<224 + (c \div 4096), 128 + ((c \div 64) % 64), 128 + (c % 64)>>)
       \o Utf8Encode(Tail(str))

\* JSON.stringify and JSON.parse of a string: control characters, the
\* quote and the backslash are written as escape sequences.
JsonStringify(str) ==
  [i \in 1..Len(str) |->
     IF str[i] < 32 \/ str[i] = 34 \/ str[i] = 92 THEN -(str[i] + 1) ELSE str[i]]
JsonParse(text) ==
  [i \in 1..Len(text) |-> IF text[i] < 0 THEN -(text[i] + 1) ELSE text[i]]

\* lib/XMLHttpRequest.js:210-216: buf[k] = str.charCodeAt(k), a byte.
stringToBuffer(str) == ExactBuffer([k \in 1..Len(str) |-> str[k] % 256])

\* this.response: Buffer.alloc(0), a string (the value of responseText) or
\* an ArrayBuffer.
EmptyResponse == [kind |-> "Buffer", bytes |-> <<>>]
StringResponse == [kind |-> "string", bytes |-> <<>>]
ArrayBufferResponse(ab) == [kind |-> "ArrayBuffer", bytes |-> ab]
\* The value JSON.parse returned.
JsonResponse == [kind |-> "json", bytes |-> <<>>]
ResponseTypes == {"", "arraybuffer"}

\* The content file: absent, or what the worker wrote: an error marker or
\* the JSON envelope, of which the status code and the data string are kept.
NoFile == [kind |-> "none", statusCode |-> 0, text |-> <<>>]
\* The worker process: where it is, and the body it received.
NoWorker == [state |-> "none", responseData |-> <<>>]

VARIABLES
  xhr,          \* the XMLHttpRequest object: closure variables and fields
  transfers,    \* the http requests and file reads whose callbacks are pending
  pc,           \* "idle", or "spin" while a synchronous send busy-waits
  syncFile,     \* the sentinel file exists
  contentFile,  \* the content file: NoFile, or what the worker wrote
  worker,       \* the spawned worker process
  sent,         \* a send of the current cycle was accepted
  reachedDone,  \* the current cycle has reached DONE
  last          \* the last operation and how it returned

vars == <<xhr, transfers, pc, syncFile, contentFile, worker, sent, reachedDone, last>>

\* A pending transfer is known by the callbacks it can still deliver:
\*   "req"    an http request that was ended: response or request error
\*   "retry"  the request errorHandler re-creates (line 614), never ended:
\*            request error only
\*   "aborted" a request that request.abort() stopped before its response:
\*            request error only (node reports the socket hang up)
\*   "resp"   a response with its data, end and error handlers attached;
\*            the handlers of lines 586 and 599 expect it to go on after an
\*            abort
\*   "file"   an fs.readFile whose callback is pending
\* and by whether it was started in a cycle that abort or open has ended.
Phases == {"req", "retry", "aborted", "resp", "file"}
Kinds ==
  {k \in [phase : Phases, stale : BOOLEAN] :
     /\ k.phase = "req" => ~k.stale
     /\ k.phase = "aborted" => k.stale}
Kind(phase, stale) == [phase |-> phase, stale |-> stale]

RECURSIVE SumOver(_, _)
SumOver(ts, ks) ==
  IF ks = {} THEN 0
  ELSE LET k == CHOOSE k \in ks : TRUE IN ts[k] + SumOver(ts, ks \ {k})
Pending(ts) == SumOver(ts, Kinds)

Add(ts, k) == [ts EXCEPT ![k] = @ + 1]
Remove(ts, k) == [ts EXCEPT ![k] = @ - 1]
Move(ts, k, phase) == Add(Remove(ts, k), Kind(phase, k.stale))

\* The variable request: null, or a request object with its reusedSocket.
NoRequest == [present |-> FALSE, reusedSocket |-> FALSE]

\* The options of send (lines 482-500), which its callbacks close over: the
\* transport (ssl), the URL that host, port and path were taken from, the
\* method and the header table.  Of these the object keeps ssl; within the
\* cycle of the send the method and the header table are those of the
\* object still (a redirect changes settings.url only), and the URL is
\* known by its scheme.
Options(x) ==
  [ssl |-> x.ssl, url |-> IF x.ssl THEN "https:" ELSE "http:",
   method |-> x.settings.method, headers |-> x.headers]
\* The options of the send of an earlier cycle, which the model does not keep.
EarlierOptions == [ssl |-> FALSE, url |-> "earlier", method |-> "earlier", headers |-> <<>>]

\* A request handed to http.request or https.request: why, after which
\* response status (0: none), with which options, and whether it was ended.
Issue(why, status, opt, ended) ==
  [why |-> why, status |-> status, ssl |-> opt.ssl, url |-> opt.url,
   method |-> opt.method, headers |-> opt.headers, ended |-> ended]

\* ---------------------------------------------------------------- log

Entry(kind, ev, x, who) ==
  [kind |-> kind, ev |-> ev, rs |-> x.readyState, ab |-> x.abortedFlag,
   er |-> x.errorFlag, async |-> x.settings.async, who |-> who]

\* The deferred closures keep the event name and the index only: the callback
\* is looked up when the timer runs.  who = 0 is the on<event> handler,
\* who = i > 0 the i-th listener.
\* cb is the callback registered in that place when the timer was set: the
\* closure does not hold it, it is kept to compare with what the timer runs.
Timer(ev, who, cb) == [ev |-> ev, who |-> who, cb |-> cb]

RECURSIVE ListenerLoop(_, _, _, _)
ListenerLoop(x, event, i, len) ==
  IF i > len THEN x
  ELSE ListenerLoop(
         IF x.readyState = DONE
         THEN [x EXCEPT !.timers = Append(@, Timer(event, i, x.listeners[event][i])),
                        !.log = Append(@, Entry("defer", event, x, i))]
         ELSE [x EXCEPT !.log = Append(@, Entry("call", event, x, i))],
         event, i + 1, len)

dispatchEvent_HandlerInline(x, event) ==
  LET x0 == [x EXCEPT !.log = Append(@, Entry("dispatch", event, x, 0))]
      x1 == IF event \in RegEvents /\ x0.onhandler[event] # NoCallback
            THEN [x0 EXCEPT !.log = Append(@, Entry("call", event, x0, 0))]
            ELSE x0
  IN IF event \in RegEvents
     THEN ListenerLoop(x1, event, 1, Len(x1.listeners[event]))
     ELSE x1

\* lib/XMLHttpRequest.js:774-789
dispatchEvent(x, event) ==
  LET x0 == [x EXCEPT !.log = Append(@, Entry("dispatch", event, x, 0))]
      x1 == IF event \in RegEvents /\ x0.onhandler[event] # NoCallback
            THEN IF x0.readyState = DONE /\ x0.settings.async
                 THEN [x0 EXCEPT !.timers = Append(@, Timer(event, 0, x0.onhandler[event])),
                                 !.log = Append(@, Entry("defer", event, x0, 0))]
                 ELSE [x0 EXCEPT !.log = Append(@, Entry("call", event, x0, 0))]
            ELSE x0
  IN IF event \in RegEvents
     THEN ListenerLoop(x1, event, 1, Len(x1.listeners[event]))
     ELSE x1

\* ---------------------------------------------------------------- setState

Fire(x) == IF x.abortedFlag THEN "abort" ELSE IF x.errorFlag THEN "error" ELSE "load"

setState_ErrorFirst(x, state) ==
  IF x.readyState = state \/ (x.readyState = UNSENT /\ x.abortedFlag)
  THEN x
  ELSE LET x1 == [x EXCEPT !.readyState = state]
           x2 == [x1 EXCEPT !.log = Append(@, Entry("set", "", x1, 0))]
           x3 == IF x2.settings.async \/ state < OPENED \/ state = DONE
                 THEN dispatchEvent(x2, "readystatechange")
                 ELSE x2
       IN IF state = DONE
          THEN dispatchEvent(
                 dispatchEvent(x3, IF x3.errorFlag THEN "error"
                                   ELSE IF x3.abortedFlag THEN "abort" ELSE "load"),
                 "loadend")
          ELSE x3

setState_AlwaysNotify(x, state) ==
  IF x.readyState = state \/ (x.readyState = UNSENT /\ x.abortedFlag)
  THEN x
  ELSE LET x1 == [x EXCEPT !.readyState = state]
           x2 == [x1 EXCEPT !.log = Append(@, Entry("set", "", x1, 0))]
           x3 == dispatchEvent(x2, "readystatechange")
       IN IF state = DONE
          THEN dispatchEvent(dispatchEvent(x3, Fire(x3)), "loadend")
          ELSE x3

\* lib/XMLHttpRequest.js:877-902
setState(x, state) ==
  IF x.readyState = state \/ (x.readyState = UNSENT /\ x.abortedFlag)
  THEN x
  ELSE LET x1 == [x EXCEPT !.readyState = state]
           x2 == [x1 EXCEPT !.log = Append(@, Entry("set", "", x1, 0))]
           x3 == IF x2.settings.async \/ state < OPENED \/ state = DONE
                 THEN dispatchEvent(x2, "readystatechange")
                 ELSE x2
       IN IF state = DONE
          THEN dispatchEvent(dispatchEvent(x3, Fire(x3)), "loadend")
          ELSE x3

\* lib/XMLHttpRequest.js:713-721.  st is the status argument, 0 when the
\* caller passes none (status || 0).
handleError(x, st) ==
  setState([x EXCEPT !.status = st, !.responseText = "stack",
                     !.response = EmptyResponse, !.errorFlag = TRUE],
           DONE)

\* lib/XMLHttpRequest.js:726-745
abort(x) ==
  LET x1 == [x EXCEPT !.request = NoRequest,
                      !.headers = defaultHeaders,
                      !.responseText = "",
                      !.response = EmptyResponse,
                      !.errorFlag = TRUE,
                      !.abortedFlag = TRUE]
      x2 == IF x1.readyState # UNSENT
               /\ (x1.readyState # OPENED \/ x1.sendFlag)
               /\ x1.readyState # DONE
            THEN setState([x1 EXCEPT !.sendFlag = FALSE], DONE)
            ELSE x1
      x3 == [x2 EXCEPT !.readyState = UNSENT]
  IN [x3 EXCEPT !.log = Append(@, Entry("set", "", x3, 0))]

\* request.abort() at line 728: the request, if still pending, is told to
\* stop; every pending transfer now belongs to a cycle that is over.
StaleKind(k) == IF k.phase = "req" THEN Kind("aborted", TRUE) ELSE Kind(k.phase, TRUE)

MarkStale(ts) ==
  [k \in Kinds |-> SumOver(ts, {j \in Kinds : StaleKind(j) = k})
                     * (IF k.stale THEN 1 ELSE 0)]

\* What the step that produced log did to the cycle.
LogReachedDone(log) == \E i \in 1..Len(log) : log[i].kind = "set" /\ log[i].rs = DONE

Begin(x) == [x EXCEPT !.log = <<>>, !.issued = <<>>]

Init ==
  /\ xhr = [readyState |-> UNSENT,
            sendFlag |-> FALSE, errorFlag |-> FALSE, abortedFlag |-> FALSE,
            settings |-> [method |-> "", url |-> "", async |-> FALSE],
            headers |-> defaultHeaders,
            disableHeaderCheck |-> FALSE,
            request |-> NoRequest,
            ssl |-> FALSE,
            issued |-> <<>>,
            status |-> NullStatus,
            responseText |-> "",
            responseType |-> "",
            response |-> EmptyResponse,
            onhandler |-> [e \in RegEvents |-> NoCallback],
            listeners |-> [e \in RegEvents |-> <<>>],
            timers |-> <<>>,
            log |-> <<>>]
  /\ transfers = [k \in Kinds |-> 0]
  /\ pc = "idle"
  /\ syncFile = FALSE
  /\ contentFile = NoFile
  /\ worker = NoWorker
  /\ sent = FALSE
  /\ reachedDone = FALSE
  /\ last = [op |-> "new", ret |-> "ok", stale |-> FALSE, arg |-> <<>>, val |-> ""]

\* ---------------------------------------------------------------- abort, open

Abort ==
  /\ pc = "idle"
  /\ xhr' = abort(Begin(xhr))
  /\ Len(xhr'.timers) <= MaxTimers
  /\ transfers' = MarkStale(transfers)
  /\ sent' = FALSE
  /\ reachedDone' = FALSE
  /\ last' = [op |-> "abort", ret |-> "ok", stale |-> FALSE, arg |-> <<>>, val |-> ""]
  /\ UNCHANGED <<pc, syncFile, contentFile, worker>>

\* lib/XMLHttpRequest.js:168-170
isAllowedHttpMethod(method) == method # "" /\ method \notin forbiddenRequestMethods

open_NoMethodCheck(x, method, url, async) ==
  LET x1 == [abort(x) EXCEPT !.errorFlag = FALSE, !.abortedFlag = FALSE]
  IN setState([x1 EXCEPT !.settings = [method |-> method, url |-> url, async |-> async]],
              OPENED)

\* lib/XMLHttpRequest.js:268-287
open(x, method, url, async) ==
  LET x1 == [abort(x) EXCEPT !.errorFlag = FALSE, !.abortedFlag = FALSE]
  IN IF ~isAllowedHttpMethod(method)
     THEN x1
     ELSE setState([x1 EXCEPT !.settings = [method |-> method, url |-> url, async |-> async]],
                   OPENED)

Open(method, url, async) ==
  /\ pc = "idle"
  /\ xhr' = open(Begin(xhr), method, url, async)
  /\ Len(xhr'.timers) <= MaxTimers
  /\ transfers' = MarkStale(transfers)
  /\ sent' = FALSE
  /\ reachedDone' = FALSE
  /\ last' = [op |-> "open",
              ret |-> IF isAllowedHttpMethod(method) THEN "ok" ELSE "SecurityError",
              stale |-> FALSE, arg |-> <<>>, val |-> method]
  /\ UNCHANGED <<pc, syncFile, contentFile, worker>>

\* ---------------------------------------------------------------- request headers

\* lib/XMLHttpRequest.js:158-160.  An empty name is falsy.
isAllowedHttpHeader(x, header) ==
  x.disableHeaderCheck
    \/ (header # <<>> /\ toLowerCase(header) \notin forbiddenRequestHeaders)

\* lib/XMLHttpRequest.js:306-319: what the call returns or throws.
SetRequestHeaderResult(x, header) ==
  IF x.readyState # OPENED THEN "InvalidState"
  ELSE IF ~isAllowedHttpHeader(x, header) THEN "false"
  ELSE IF x.sendFlag THEN "InvalidState"
  ELSE "true"

setRequestHeader(x, header, value) ==
  IF SetRequestHeaderResult(x, header) = "true"
  THEN [x EXCEPT !.headers = SetHeader(@, header, value)]
  ELSE x

SetRequestHeader(header, value) ==
  /\ pc = "idle"
  /\ xhr' = setRequestHeader(Begin(xhr), header, value)
  /\ last' = [op |-> "setRequestHeader", ret |-> SetRequestHeaderResult(xhr, header),
              stale |-> FALSE, arg |-> header, val |-> value]
  /\ UNCHANGED <<transfers, pc, syncFile, contentFile, worker, sent, reachedDone>>

\* lib/XMLHttpRequest.js:295-297
SetDisableHeaderCheck(state) ==
  /\ pc = "idle"
  /\ xhr.disableHeaderCheck # state
  /\ xhr' = [Begin(xhr) EXCEPT !.disableHeaderCheck = state]
  /\ last' = [op |-> "setDisableHeaderCheck", ret |-> "ok", stale |-> FALSE,
              arg |-> <<>>, val |-> ""]
  /\ UNCHANGED <<transfers, pc, syncFile, contentFile, worker, sent, reachedDone>>

\* ---------------------------------------------------------------- send


SendError_NoMethodCheck(x) ==
  IF x.readyState # OPENED THEN "InvalidState"
  ELSE IF x.sendFlag THEN "InvalidState"
  ELSE IF x.settings.url \notin {"https:", "http:", "file:", ""} THEN "ProtocolError"
  ELSE "none"

\* lib/XMLHttpRequest.js:843-870, for the response types "" and
\* "arraybuffer": the text of a Buffer is kept as "body".
createFileOrSyncResponse(x, buf) ==
  IF x.responseType = "arraybuffer"
  THEN [x EXCEPT !.responseText = "",
                 !.response = ArrayBufferResponse(checkAndShrinkBuffer(buf))]
  ELSE [x EXCEPT !.responseText = "body", !.response = StringResponse]

\* lib/XMLHttpRequest.js:808-810: JSON.parse(self.responseText) throws a
\* SyntaxError when the body is not a JSON text (parses = FALSE).
createResponseThrows(x, parses) == x.responseType = "json" /\ ~parses

\* lib/XMLHttpRequest.js:801-830, for the response types "", "json" (with a
\* body that parses) and "arraybuffer".
createResponse(x, buffers) ==
  IF x.responseType = "arraybuffer"
  THEN [x EXCEPT !.responseText = "",
                 !.response = ArrayBufferResponse(checkAndShrinkBuffer(concat(buffers)))]
  ELSE IF x.responseType = "json"
  THEN [x EXCEPT !.responseText = "", !.response = JsonResponse]
  ELSE [x EXCEPT !.responseText = "body", !.response = StringResponse]

\* lib/XMLHttpRequest.js:379-417: the checks that make send throw.
SendError(x) ==
  IF x.readyState # OPENED THEN "InvalidState"
  ELSE IF x.sendFlag THEN "InvalidState"
  ELSE IF x.settings.url \notin {"https:", "http:", "file:", ""} THEN "ProtocolError"
  ELSE IF x.settings.url = "file:" /\ x.settings.method # "GET" THEN "MethodError"
  ELSE "none"

\* lib/XMLHttpRequest.js:451-480, for a send without a body.
NetworkHeaders(x) ==
  LET h1 == SetHeader(x.headers, H_Host, "localhost")
  IN IF x.settings.method = "POST" THEN SetHeader(h1, H_ContentLength, "0") ELSE h1

\* lib/XMLHttpRequest.js:380-386, 409-417
SendThrows ==
  /\ pc = "idle"
  /\ SendError(xhr) # "none"
  /\ xhr' = Begin(xhr)
  /\ last' = [op |-> "send", ret |-> SendError(xhr), stale |-> FALSE, arg |-> <<>>, val |-> ""]
  /\ UNCHANGED <<transfers, pc, syncFile, contentFile, worker, sent, reachedDone>>

\* lib/XMLHttpRequest.js:419-429: fs.readFile is started and send returns.
SendFileAsync ==
  /\ pc = "idle"
  /\ SendError(xhr) = "none"
  /\ xhr.settings.url = "file:"
  /\ xhr.settings.async
  /\ Pending(transfers) < MaxTransfers
  /\ xhr' = Begin(xhr)
  /\ transfers' = Add(transfers, Kind("file", FALSE))
  /\ sent' = TRUE
  /\ last' = [op |-> "send", ret |-> "ok", stale |-> FALSE, arg |-> <<>>, val |-> ""]
  /\ UNCHANGED <<pc, syncFile, contentFile, worker, reachedDone>>

\* lib/XMLHttpRequest.js:430-440
sendFileSync(x, readOk, syncData) ==
  LET x1 == [x EXCEPT !.status = 200]
  IN IF readOk
     THEN setState(createFileOrSyncResponse(x1, syncData), DONE)
     ELSE handleError(x1, ENOENT)

SendFileSync(readOk, syncData) ==
  /\ pc = "idle"
  /\ SendError(xhr) = "none"
  /\ xhr.settings.url = "file:"
  /\ ~xhr.settings.async
  /\ xhr' = sendFileSync(Begin(xhr), readOk, syncData)
  /\ Len(xhr'.timers) <= MaxTimers
  /\ sent' = TRUE
  /\ reachedDone' = (reachedDone \/ LogReachedDone(xhr'.log))
  /\ last' = [op |-> "send", ret |-> "ok", stale |-> FALSE,
              arg |-> IF readOk THEN BufferBytes(syncData) ELSE <<>>,
              val |-> IF readOk THEN Layout(syncData) ELSE "ENOENT"]
  /\ UNCHANGED <<transfers, pc, syncFile, contentFile, worker>>

\* lib/XMLHttpRequest.js:445-513, 618-634: the asynchronous network send.
sendAsync(x, reused) ==
  LET x1 == [x EXCEPT !.headers = NetworkHeaders(x),
                      !.errorFlag = FALSE,
                      !.sendFlag = TRUE]
      x2 == dispatchEvent([x1 EXCEPT !.ssl = (x1.settings.url = "https:")],
                          "readystatechange")
      x3 == [x2 EXCEPT !.request = [present |-> TRUE, reusedSocket |-> reused],
                       !.issued = Append(@, Issue("send", 0, Options(x2), TRUE))]
  IN dispatchEvent(x3, "loadstart")

SendAsync(reused) ==
  /\ pc = "idle"
  /\ SendError(xhr) = "none"
  /\ xhr.settings.url # "file:"
  /\ xhr.settings.async
  /\ Pending(transfers) < MaxTransfers
  /\ xhr' = sendAsync(Begin(xhr), reused)
  /\ transfers' = Add(transfers, Kind("req", FALSE))
  /\ sent' = TRUE
  /\ last' = [op |-> "send", ret |-> "ok", stale |-> FALSE, arg |-> <<>>, val |-> ""]
  /\ UNCHANGED <<pc, syncFile, contentFile, worker, reachedDone>>

\* ---------------------------------------------------------------- callbacks

\* A callback of the transfer k, given the bytes arg laid out as val.
\* ret: "ok", or the exception that escapes the callback.
CallbackRet(op, k, x, ts, arg, val, ret) ==
  /\ xhr' = x
  /\ Len(x.timers) <= MaxTimers
  /\ transfers' = ts
  /\ reachedDone' = (reachedDone \/ LogReachedDone(x.log))
  /\ last' = [op |-> op, ret |-> ret, stale |-> k.stale, arg |-> arg, val |-> val]
  /\ UNCHANGED <<pc, syncFile, contentFile, worker, sent>>

CallbackWith(op, k, x, ts, arg, val) == CallbackRet(op, k, x, ts, arg, val, "ok")

Callback(op, k, x, ts) == CallbackWith(op, k, x, ts, <<>>, "")

\* lib/XMLHttpRequest.js:516-572: a response that is not a redirect.
responseHandler(x, statusCode) ==
  [setState(x, HEADERS_RECEIVED) EXCEPT !.status = statusCode]

ResponseHeaders ==
  LET k == Kind("req", FALSE) IN
  /\ pc = "idle"
  /\ transfers[k] > 0
  /\ Callback("response", k, responseHandler(Begin(xhr), 200), Move(transfers, k, "resp"))

\* lib/XMLHttpRequest.js:524-554: a response with status 302, 303 or 307
\* and Location header location.  The new request is made with the
\* doRequest of the send (http or https), takes host, port and path from
\* the location, and is assigned to request.
redirect(x, statusCode, location, reused) ==
  LET x1 == [x EXCEPT !.settings.url = location]
      newOptions == [ssl |-> x1.ssl, url |-> location,
                     method |-> IF statusCode = 303 THEN "GET" ELSE x1.settings.method,
                     headers |-> x1.headers]
  IN [x1 EXCEPT !.request = [present |-> TRUE, reusedSocket |-> reused],
                !.issued = Append(@, Issue("redirect", statusCode, newOptions, TRUE))]

\* A redirect takes the place of the answered request.
ResponseRedirect(reused, statusCode, location) ==
  LET k == Kind("req", FALSE) IN
  /\ pc = "idle"
  /\ transfers[k] > 0
  /\ xhr' = redirect(Begin(xhr), statusCode, location, reused)
  /\ last' = [op |-> "redirect", ret |-> "ok", stale |-> FALSE, arg |-> <<>>,
              val |-> location]
  /\ UNCHANGED <<transfers, pc, syncFile, contentFile, worker, sent, reachedDone>>

\* lib/XMLHttpRequest.js:574-590
onData(x) ==
  LET x1 == [x EXCEPT !.responseText = "partial"]
  IN IF x1.sendFlag THEN setState(x1, LOADING) ELSE x1

ResponseData(stale) ==
  LET k == Kind("resp", stale) IN
  /\ pc = "idle"
  /\ transfers[k] > 0
  /\ Callback("data", k, onData(Begin(xhr)), transfers)

\* lib/XMLHttpRequest.js:566-585: the chunks of a response are collected
\* as Buffers unless the response type is a text type, and appended to
\* responseText then.
NetworkBuffers(x) ==
  IF x.responseType = "arraybuffer" THEN <<ExactBuffer(DefaultBody)>> ELSE <<>>

\* lib/XMLHttpRequest.js:592-602
\* buffers: the chunks the data handler collected for this response.
\* parses: the body is a JSON text.  When createResponse throws, the
\* handler ends before setState(DONE).
onEnd(x, buffers, parses) ==
  IF x.sendFlag
  THEN IF createResponseThrows(x, parses)
       THEN [x EXCEPT !.sendFlag = FALSE]
       ELSE setState(createResponse([x EXCEPT !.sendFlag = FALSE], buffers), DONE)
  ELSE x

ResponseEndWith(stale, parses) ==
  LET k == Kind("resp", stale) IN
  /\ pc = "idle"
  /\ transfers[k] > 0
  /\ parses \/ xhr.responseType = "json"
  /\ CallbackRet("end", k, onEnd(Begin(xhr), NetworkBuffers(xhr), parses),
                 Remove(transfers, k), <<>>, "",
                 IF xhr.sendFlag /\ createResponseThrows(xhr, parses)
                 THEN "SyntaxError" ELSE "ok")

ResponseEnd(stale) == ResponseEndWith(stale, TRUE)

\* lib/XMLHttpRequest.js:604-606
ResponseError(stale) ==
  LET k == Kind("resp", stale) IN
  /\ pc = "idle"
  /\ transfers[k] > 0
  /\ Callback("resperror", k, handleError(Begin(xhr), 0), Remove(transfers, k))

\* lib/XMLHttpRequest.js:610-616.  "TypeError": request is null when
\* request.reusedSocket is read; "retry": a new request is created, is not
\* assigned to request and is not ended; "error": handleError.
ErrorHandlerOutcome(x, code) ==
  IF ~x.request.present THEN "TypeError"
  ELSE IF x.request.reusedSocket /\ code = "ECONNRESET" THEN "retry"
  ELSE "error"

errorHandler(x, code, opt) ==
  IF ErrorHandlerOutcome(x, code) = "error" THEN handleError(x, 0)
  ELSE IF ErrorHandlerOutcome(x, code) = "retry"
  THEN [x EXCEPT !.issued = Append(@, Issue("retry", 0, opt, FALSE))]
  ELSE x

RequestError(k, code) ==
  /\ pc = "idle"
  /\ k.phase \in {"req", "retry", "aborted"}
  /\ transfers[k] > 0
  /\ xhr' = errorHandler(Begin(xhr), code,
                          IF k.stale THEN EarlierOptions ELSE Options(xhr))
  /\ Len(xhr'.timers) <= MaxTimers
  /\ transfers' = IF ErrorHandlerOutcome(xhr, code) = "retry"
                  THEN Move(transfers, k, "retry")
                  ELSE Remove(transfers, k)
  /\ reachedDone' = (reachedDone \/ LogReachedDone(xhr'.log))
  /\ last' = [op |-> "reqerror",
              ret |-> IF ErrorHandlerOutcome(xhr, code) = "error" THEN "ok"
                      ELSE ErrorHandlerOutcome(xhr, code),
              stale |-> k.stale, arg |-> <<k.phase>>, val |-> code]
  /\ UNCHANGED <<pc, syncFile, contentFile, worker, sent>>

\* lib/XMLHttpRequest.js:420-429
fileCallback(x, readOk, data) ==
  IF readOk
  THEN setState(createFileOrSyncResponse([x EXCEPT !.status = 200], data), DONE)
  ELSE handleError(x, ENOENT)

FileCallback(stale, readOk, data) ==
  LET k == Kind("file", stale) IN
  /\ pc = "idle"
  /\ transfers[k] > 0
  /\ CallbackWith(IF readOk THEN "filecb" ELSE "fileerr", k,
                  fileCallback(Begin(xhr), readOk, data), Remove(transfers, k),
                  IF readOk THEN BufferBytes(data) ELSE <<>>,
                  IF readOk THEN Layout(data) ELSE "ENOENT")

\* ---------------------------------------------------------------- synchronous bridge

\* lib/XMLHttpRequest.js:636-681: the sentinel is written, the worker is
\* spawned and the caller spins while the sentinel exists.
SendSyncBegin ==
  /\ pc = "idle"
  /\ SendError(xhr) = "none"
  /\ xhr.settings.url # "file:"
  /\ ~xhr.settings.async
  /\ xhr' = [Begin(xhr) EXCEPT !.headers = NetworkHeaders(xhr), !.errorFlag = FALSE]
  /\ syncFile' = TRUE
  /\ worker' = [state |-> "running", responseData |-> <<>>]
  /\ pc' = "spin"
  /\ sent' = TRUE
  /\ last' = [op |-> "send", ret |-> "blocked", stale |-> FALSE, arg |-> <<>>, val |-> ""]
  /\ UNCHANGED <<transfers, contentFile, reachedDone>>

\* lib/XMLHttpRequest.js:664-672: fs.writeFileSync(contentFile, ...) of the
\* worker's end handler ("ok") or of one of its error handlers ("err").
workerContent(kind, responseData) ==
  IF kind = "err"
  THEN [kind |-> "err", statusCode |-> 0, text |-> <<>>]
  ELSE [kind |-> "ok", statusCode |-> 200,
        text |-> Utf8Encode(JsonStringify(Utf8Decode(responseData)))]

\* fs.writeFileSync creates the content file, then writes it, then returns:
\* until the text is written the file exists with part of it.
PartialFile == [kind |-> "partial", statusCode |-> 0, text |-> <<>>]

WorkerCreate ==
  /\ worker.state = "running"
  /\ contentFile' = PartialFile
  /\ worker' = [worker EXCEPT !.state = "writing"]
  /\ UNCHANGED <<xhr, transfers, pc, syncFile, sent, reachedDone, last>>

\* body: the bytes of the response the worker received (none on an error).
WorkerWrite(kind, body) ==
  /\ worker.state = "writing"
  /\ kind = "err" => body = <<>>
  /\ contentFile' = workerContent(kind, body)
  /\ worker' = [state |-> "written", responseData |-> body]
  /\ UNCHANGED <<xhr, transfers, pc, syncFile, sent, reachedDone, last>>

ContentWritten_Early(w) == w.state \in {"running", "writing", "written"}

\* lib/XMLHttpRequest.js:664-665, 668-669, 672-673: each handler of the
\* worker calls fs.unlinkSync(syncFile) after fs.writeFileSync has returned.
ContentWritten(w) == w.state = "written"

\* lib/XMLHttpRequest.js:665, 669, 673: fs.unlinkSync(syncFile).
WorkerUnlink ==
  /\ ContentWritten(worker)
  /\ syncFile' = FALSE
  /\ worker' = [worker EXCEPT !.state = "finished"]
  /\ UNCHANGED <<xhr, transfers, pc, contentFile, sent, reachedDone, last>>

\* lib/XMLHttpRequest.js:678: the spawned process ends without running one
\* of its handlers to completion (it could not start, or it crashed).
WorkerDies ==
  /\ worker.state \in {"running", "writing", "written"}
  /\ worker' = [worker EXCEPT !.state = "dead"]
  /\ UNCHANGED <<xhr, transfers, pc, syncFile, contentFile, sent, reachedDone, last>>

\* lib/XMLHttpRequest.js:686: fs.unlinkSync(contentFile).
unlinkContent_Keep(content) == content

unlinkContent(content) == NoFile

\* lib/XMLHttpRequest.js:682-704
sendSyncFinish(x, content) ==
  IF content.kind = "err"
  THEN handleError([x EXCEPT !.responseText = "file"], 503)
  ELSE LET data == JsonParse(Utf8Decode(content.text))
           x1 == [x EXCEPT !.responseText = "file",
                           !.status = content.statusCode,
                           !.response = [kind |-> "Buffer",
                                         bytes |-> BufferBytes(stringToBuffer(data))]]
       IN setState(createFileOrSyncResponse(x1, stringToBuffer(data)), DONE)

SendSyncFinish ==
  /\ pc = "spin"
  /\ ~syncFile
  /\ xhr' = IF contentFile = NoFile THEN Begin(xhr)
            ELSE sendSyncFinish(Begin(xhr), contentFile)
  /\ Len(xhr'.timers) <= MaxTimers
  /\ contentFile' = unlinkContent(contentFile)
  /\ worker' = NoWorker
  /\ pc' = "idle"
  /\ reachedDone' = (reachedDone \/ LogReachedDone(xhr'.log))
  /\ last' = [op |-> "send", ret |-> IF contentFile = NoFile THEN "ENOENT" ELSE "ok",
              stale |-> FALSE, arg |-> <<>>, val |-> contentFile.kind]
  /\ UNCHANGED <<transfers, syncFile, sent>>

\* ---------------------------------------------------------------- listeners, timers

UserOp(op, x) ==
  /\ pc = "idle"
  /\ xhr' = x
  /\ last' = [op |-> op, ret |-> "ok", stale |-> FALSE, arg |-> <<>>, val |-> ""]
  /\ UNCHANGED <<transfers, pc, syncFile, contentFile, worker, sent, reachedDone>>

\* xhr.on<event> = cb
SetHandler(event, cb) ==
  /\ xhr.onhandler[event] # cb
  /\ UserOp("sethandler", [Begin(xhr) EXCEPT !.onhandler[event] = cb])

\* xhr.responseType = type (lib/XMLHttpRequest.js:146: a plain property)
SetResponseType(type) ==
  /\ xhr.responseType # type
  /\ UserOp("setResponseType", [Begin(xhr) EXCEPT !.responseType = type])

\* lib/XMLHttpRequest.js:750-756
AddListenerUpTo(max, event, cb) ==
  /\ Len(xhr.listeners[event]) < max
  /\ UserOp("addEventListener", [Begin(xhr) EXCEPT !.listeners[event] = Append(@, cb)])

AddEventListener(event, cb) == AddListenerUpTo(MaxListeners, event, cb)

\* lib/XMLHttpRequest.js:762-769
RemoveEventListener(event, cb) ==
  /\ Len(xhr.listeners[event]) > 0
  /\ UserOp("removeEventListener",
            [Begin(xhr) EXCEPT !.listeners[event] = SelectSeq(@, LAMBDA c : c # cb)])

\* The closures of lines 777 and 784, run by the timer.
TimerOutcome(x, tm) ==
  IF tm.who = 0
  THEN IF x.onhandler[tm.ev] = NoCallback THEN "TypeError" ELSE "ok"
  ELSE IF tm.who > Len(x.listeners[tm.ev]) THEN "TypeError" ELSE "ok"

\* The callback the closure finds when the timer runs.
TimerCallback(x, tm) ==
  IF TimerOutcome(x, tm) # "ok" THEN NoCallback
  ELSE IF tm.who = 0 THEN x.onhandler[tm.ev] ELSE x.listeners[tm.ev][tm.who]

Tick ==
  /\ pc = "idle"
  /\ Len(xhr.timers) > 0
  /\ LET tm == Head(xhr.timers)
         x == [Begin(xhr) EXCEPT !.timers = Tail(@)]
     IN /\ xhr' = IF TimerOutcome(x, tm) = "ok"
                  THEN [x EXCEPT !.log = <<Entry("run", tm.ev, x, tm.who)>>]
                  ELSE x
        /\ last' = [op |-> "timer", ret |-> TimerOutcome(x, tm), stale |-> FALSE,
                    arg |-> <<>>, val |-> TimerCallback(x, tm)]
  /\ UNCHANGED <<transfers, pc, syncFile, contentFile, worker, sent, reachedDone>>

\* The statuses line 524 takes for a redirect, and the Location URLs.
RedirectStatuses == {302, 303, 307}
Locations == {"http:", "https:"}

Lifecycle ==
  \/ Abort
  \/ \E m \in Methods, u \in Schemes, a \in BOOLEAN : Open(m, u, a)
  \/ SendThrows
  \/ SendFileAsync
  \/ \E ok \in BOOLEAN : SendFileSync(ok, DefaultFile)
  \/ \E r \in BOOLEAN : SendAsync(r)
  \/ ResponseHeaders
  \/ \E r \in BOOLEAN, st \in RedirectStatuses, loc \in Locations :
       ResponseRedirect(r, st, loc)
  \/ \E st \in BOOLEAN : ResponseData(st)
  \/ \E st \in BOOLEAN : ResponseEnd(st)
  \/ \E st \in BOOLEAN : ResponseError(st)
  \/ \E k \in Kinds, c \in {"ECONNRESET", "ECONNREFUSED"} : RequestError(k, c)
  \/ \E st \in BOOLEAN, ok \in BOOLEAN : FileCallback(st, ok, DefaultFile)
  \/ SendSyncBegin
  \/ \E k \in {"ok", "err"} : WorkerWrite(k, IF k = "ok" THEN DefaultBody ELSE <<>>)
  \/ WorkerCreate
  \/ WorkerUnlink
  \/ WorkerDies
  \/ SendSyncFinish

Next == Lifecycle

Spec == Init /\ [][Next]_vars

\* ---------------------------------------------------------------- callbacks registered
\* The same object with user code that registers and removes callbacks and
\* with the timers that run the deferred ones; one transfer at a time.

Quiet == Pending(transfers) = 0
\* The deferred callbacks of a step run before the next step of the object
\* or of a transport; only user code that changes the callbacks comes between.
Drained == Len(xhr.timers) = 0

EventNext ==
  \/ \E e \in RegEvents, cb \in Callbacks \cup {NoCallback} : SetHandler(e, cb)
  \/ \E e \in RegEvents, cb \in Callbacks : AddEventListener(e, cb)
  \/ \E e \in RegEvents, cb \in Callbacks : RemoveEventListener(e, cb)
  \/ Tick
  \/ Drained /\ Abort
  \/ \E u \in {"http:", "file:"}, a \in BOOLEAN : Drained /\ Open("GET", u, a)
  \/ Drained /\ SendThrows
  \/ Drained /\ Quiet /\ SendFileAsync
  \/ \E ok \in BOOLEAN : Drained /\ SendFileSync(ok, DefaultFile)
  \/ Drained /\ Quiet /\ SendAsync(FALSE)
  \/ Drained /\ ResponseHeaders
  \/ \E st \in BOOLEAN : Drained /\ ResponseData(st)
  \/ \E st \in BOOLEAN : Drained /\ ResponseEnd(st)
  \/ \E st \in BOOLEAN : Drained /\ ResponseError(st)
  \/ \E k \in Kinds : Drained /\ RequestError(k, "ECONNREFUSED")
  \/ \E st \in BOOLEAN, ok \in BOOLEAN : Drained /\ FileCallback(st, ok, DefaultFile)
  \/ Drained /\ SendSyncBegin
  \/ \E k \in {"ok", "err"} : WorkerWrite(k, IF k = "ok" THEN DefaultBody ELSE <<>>)
  \/ WorkerCreate
  \/ WorkerUnlink
  \/ SendSyncFinish

EventSpec == Init /\ [][EventNext]_vars

\* ---------------------------------------------------------------- callbacks in order
\* The same object on the file transport with two callbacks, which user code
\* sets as the loadend handler and registers, more than once too, as loadend
\* listeners.

MaxRegistered == 2
OrderCallbacks == {"f", "g"}

OrderNext ==
  \/ \E cb \in OrderCallbacks \cup {NoCallback} : SetHandler("loadend", cb)
  \/ \E cb \in OrderCallbacks : AddListenerUpTo(MaxRegistered, "loadend", cb)
  \/ \E cb \in OrderCallbacks : RemoveEventListener("loadend", cb)
  \/ Tick
  \/ Drained /\ Abort
  \/ \E a \in BOOLEAN : Drained /\ Open("GET", "file:", a)
  \/ Drained /\ SendThrows
  \/ Drained /\ Quiet /\ SendFileAsync
  \/ \E ok \in BOOLEAN : Drained /\ SendFileSync(ok, DefaultFile)
  \/ \E st \in BOOLEAN, ok \in BOOLEAN : Drained /\ FileCallback(st, ok, DefaultFile)

OrderSpec == Init /\ [][OrderNext]_vars

\* ---------------------------------------------------------------- request headers set
\* The same object with user code that sets request headers; one transfer
\* at a time.

HeaderNames == {H_ContentLength, H_Via, H_XTest}
HeaderValues == {"a", "b"}

HeaderNext ==
  \/ \E h \in HeaderNames, v \in HeaderValues : SetRequestHeader(h, v)
  \/ \E b \in BOOLEAN : SetDisableHeaderCheck(b)
  \/ Abort
  \/ \E m \in {"GET", "POST"}, u \in {"http:", "file:"} : Open(m, u, TRUE)
  \/ SendThrows
  \/ Quiet /\ SendFileAsync
  \/ Quiet /\ SendAsync(FALSE)
  \/ ResponseHeaders
  \/ \E st \in BOOLEAN : ResponseEnd(st)
  \/ \E k \in Kinds : RequestError(k, "ECONNREFUSED")
  \/ \E st \in BOOLEAN, ok \in BOOLEAN : FileCallback(st, ok, DefaultFile)

HeaderSpec == Init /\ [][HeaderNext]_vars

\* ---------------------------------------------------------------- redirects and retries
\* The same object on the asynchronous network transport, over http and
\* https, with a request header set by user code.

RedirectNext ==
  \/ Abort
  \/ \E m \in {"GET", "POST"}, u \in {"http:", "https:"} : Open(m, u, TRUE)
  \/ \E v \in HeaderValues : SetRequestHeader(H_XTest, v)
  \/ SendThrows
  \/ \E r \in BOOLEAN : SendAsync(r)
  \/ ResponseHeaders
  \/ \E r \in BOOLEAN, st \in RedirectStatuses, loc \in Locations :
       ResponseRedirect(r, st, loc)
  \/ \E st \in BOOLEAN : ResponseData(st)
  \/ \E st \in BOOLEAN : ResponseEnd(st)
  \/ \E st \in BOOLEAN : ResponseError(st)
  \/ \E k \in Kinds, c \in {"ECONNRESET", "ECONNREFUSED"} : RequestError(k, c)

RedirectSpec == Init /\ [][RedirectNext]_vars

\* ---------------------------------------------------------------- transfers completed
\* The same object on the asynchronous network transport, with responseType
\* '' or 'json' and a loadend handler, under a transport that answers every
\* request it was sent and ends every response, and a timer queue that runs.

LiveNext ==
  \/ \E t \in {"", "json"} : SetResponseType(t)
  \/ \E cb \in Callbacks \cup {NoCallback} : SetHandler("loadend", cb)
  \/ Tick
  \/ Abort
  \/ Open("GET", "http:", TRUE)
  \/ SendThrows
  \/ \E r \in BOOLEAN : SendAsync(r)
  \/ ResponseHeaders
  \/ \E r \in BOOLEAN : ResponseRedirect(r, 302, "http:")
  \/ \E st \in BOOLEAN : ResponseData(st)
  \/ \E st \in BOOLEAN, p \in BOOLEAN : ResponseEndWith(st, p)
  \/ \E st \in BOOLEAN : ResponseError(st)
  \/ \E k \in Kinds, c \in {"ECONNRESET", "ECONNREFUSED"} : RequestError(k, c)

\* A request that was sent is answered, by a final response unless an error
\* ends it; a response that arrived is ended; a timer that was set runs.
\* The request errorHandler creates for a retry is never ended (line 614),
\* so it is never sent and nothing has to arrive for it.
LiveFairness ==
  /\ WF_vars(ResponseHeaders)
  /\ WF_vars(\E p \in BOOLEAN : ResponseEndWith(FALSE, p))
  /\ WF_vars(Tick)

LiveSpec == Init /\ [][LiveNext]_vars /\ LiveFairness

\* ---------------------------------------------------------------- response bodies
\* The same object with user code that sets responseType, reading files and
\* synchronous network responses of every content up to MaxBytes bytes; one
\* transfer at a time.

BodyNext ==
  \/ \E t \in ResponseTypes : SetResponseType(t)
  \/ Abort
  \/ \E u \in {"http:", "file:"}, a \in BOOLEAN : (u = "http:" => ~a) /\ Open("GET", u, a)
  \/ SendThrows
  \/ Quiet /\ SendFileAsync
  \/ \E ok \in BOOLEAN, buf \in FileBuffers : SendFileSync(ok, buf)
  \/ \E st \in BOOLEAN, ok \in BOOLEAN, buf \in FileBuffers : FileCallback(st, ok, buf)
  \/ SendSyncBegin
  \/ \E k \in {"ok", "err"}, body \in ByteSeqs : WorkerWrite(k, body)
  \/ WorkerCreate
  \/ WorkerUnlink
  \/ SendSyncFinish

BodySpec == Init /\ [][BodyNext]_vars

\* ---------------------------------------------------------------- what a step did

\* The names of the events dispatched after the readyState assignment at
\* position i of the log and before the next assignment.
NextSet(log, i) ==
  IF \E j \in (i + 1)..Len(log) : log[j].kind = "set"
  THEN CHOOSE j \in (i + 1)..Len(log) :
         /\ log[j].kind = "set"
         /\ \A m \in (i + 1)..(j - 1) : log[m].kind # "set"
  ELSE Len(log) + 1

DispatchedAfter(log, i) ==
  LET d == SelectSeq(SubSeq(log, i + 1, NextSet(log, i) - 1),
                     LAMBDA e : e.kind = "dispatch")
  IN [m \in 1..Len(d) |-> d[m].ev]

\* The names of all events the step dispatched, in order.
Dispatched(log) ==
  LET d == SelectSeq(log, LAMBDA e : e.kind = "dispatch")
  IN [m \in 1..Len(d) |-> d[m].ev]

SetsOf(log) ==
  LET d == SelectSeq(log, LAMBDA e : e.kind = "set")
  IN [m \in 1..Len(d) |-> d[m].rs]

\* A transfer is in flight: send was called and DONE has not been reached.
InFlight == sent /\ ~reachedDone

TransportOps ==
  {"response", "redirect", "data", "end", "resperror", "reqerror", "filecb", "fileerr"}

\* ---------------------------------------------------------------- claims

\* C1: within one cycle readyState never moves to a lower value except
\* through abort or a fresh open, whatever transport callbacks arrive.
C1_Monotonic ==
  [][last'.op \notin {"abort", "open"} => xhr'.readyState >= xhr.readyState]_vars

\* C2: every assignment of DONE to readyState is followed by the dispatch
\* of readystatechange, of exactly one of abort, error, load (abort if the
\* aborted flag is set, else error if the error flag is set, else load) and
\* of loadend immediately after it.
C2_TerminalEvents ==
  \A i \in 1..Len(xhr.log) :
    (xhr.log[i].kind = "set" /\ xhr.log[i].rs = DONE)
      => DispatchedAfter(xhr.log, i)
           = << "readystatechange",
                IF xhr.log[i].ab THEN "abort"
                ELSE IF xhr.log[i].er THEN "error" ELSE "load",
                "loadend" >>

\* A step has forced DONE with both the aborted and the error flag set.
C2_Witness ==
  \E i \in 1..Len(xhr.log) :
    /\ xhr.log[i].kind = "set" /\ xhr.log[i].rs = DONE
    /\ xhr.log[i].ab /\ xhr.log[i].er
    /\ DispatchedAfter(xhr.log, i) = <<"readystatechange", "abort", "loadend">>

\* The state of the object apart from the record of the last step.
Untouched(x, y) == Begin(x) = Begin(y)

\* C3: an open that succeeds while a transfer is in flight forces DONE,
\* dispatches readystatechange, abort and loadend for the prior transfer
\* before it assigns OPENED, and returns with readyState OPENED and the
\* error and aborted flags clear.
C3_OpenAbortsPrior ==
  [][(pc = "idle" /\ InFlight /\ last'.op = "open" /\ last'.ret = "ok")
       => /\ \E i \in 1..Len(xhr'.log) :
               /\ xhr'.log[i].kind = "set" /\ xhr'.log[i].rs = DONE
               /\ DispatchedAfter(xhr'.log, i) = <<"readystatechange", "abort", "loadend">>
               /\ \E j \in (i + 1)..Len(xhr'.log) :
                    xhr'.log[j].kind = "set" /\ xhr'.log[j].rs = OPENED
          /\ xhr'.readyState = OPENED
          /\ ~xhr'.errorFlag
          /\ ~xhr'.abortedFlag]_vars

\* C4: a call of send while readyState is not OPENED, or while a send of
\* the current cycle is in flight, throws InvalidState and changes nothing.
C4_SendRejected ==
  [][(pc = "idle" /\ last'.op = "send" /\ (xhr.readyState # OPENED \/ InFlight))
       => /\ last'.ret = "InvalidState"
          /\ Untouched(xhr', xhr)
          /\ transfers' = transfers]_vars

\* C5: abort leaves readyState at UNSENT; with a transfer in flight it
\* forces DONE and dispatches readystatechange, abort and loadend once each;
\* with no transfer in flight it dispatches no event.
C5_Abort ==
  [][(pc = "idle" /\ last'.op = "abort")
       => /\ xhr'.readyState = UNSENT
          /\ IF InFlight
             THEN /\ Dispatched(xhr'.log) = <<"readystatechange", "abort", "loadend">>
                  /\ SetsOf(xhr'.log) = <<DONE, UNSENT>>
             ELSE Dispatched(xhr'.log) = <<>>]_vars

\* C6 as stated: while readyState is DONE no callback, handler or listener,
\* is invoked inline by the step that dispatches the event.
C6_NoInlineAtDone ==
  \A i \in 1..Len(xhr.log) :
    ~(xhr.log[i].kind = "call" /\ xhr.log[i].rs = DONE)

\* C6, amended: while readyState is DONE no listener is invoked inline, and
\* the on<event> handler is invoked inline exactly when the request is
\* synchronous; a callback that is not invoked inline is handed to a timer,
\* and timers run in steps of their own.
C6_DeferredAtDone ==
  /\ \A i \in 1..Len(xhr.log) :
       LET e == xhr.log[i] IN
       /\ (e.kind = "call" /\ e.rs = DONE) => (e.who = 0 /\ ~e.async)
       /\ (e.kind = "defer") => (e.rs = DONE /\ (e.who = 0 => e.async))
       /\ (e.kind = "run") => (last.op = "timer" /\ Len(xhr.log) = 1)
  /\ \A i \in 1..Len(xhr.log) :
       (xhr.log[i].kind = "dispatch" /\ xhr.log[i].rs = DONE
          /\ xhr.log[i].ev \in RegEvents)
         => LET n == IF \E j \in (i + 1)..Len(xhr.log) :
                          xhr.log[j].kind \in {"dispatch", "set"}
                     THEN CHOOSE j \in (i + 1)..Len(xhr.log) :
                            /\ xhr.log[j].kind \in {"dispatch", "set"}
                            /\ \A m \in (i + 1)..(j - 1) :
                                 xhr.log[m].kind \notin {"dispatch", "set"}
                     ELSE Len(xhr.log) + 1
                cbs == SubSeq(xhr.log, i + 1, n - 1)
            IN /\ (xhr.onhandler[xhr.log[i].ev] # NoCallback)
                    = (\E m \in 1..Len(cbs) : cbs[m].who = 0)
               /\ \A w \in 1..Len(xhr.listeners[xhr.log[i].ev]) :
                    \E m \in 1..Len(cbs) : cbs[m].who = w /\ cbs[m].kind = "defer"

\* An asynchronous transfer has reached DONE with a handler and a listener
\* registered for loadend: both were handed to timers.
C6_Witness ==
  \E i \in 1..Len(xhr.log), j \in 1..Len(xhr.log) :
    /\ xhr.log[i].kind = "defer" /\ xhr.log[i].ev = "loadend" /\ xhr.log[i].who = 0
    /\ xhr.log[j].kind = "defer" /\ xhr.log[j].ev = "loadend" /\ xhr.log[j].who = 1
    /\ xhr.log[i].rs = DONE /\ xhr.log[i].async
    /\ last.op \in {"end", "filecb"}

\* A synchronous network send has returned (normally or by throwing).
SyncSendReturned ==
  /\ last.op = "send" /\ pc = "idle"
  /\ ~xhr.settings.async /\ xhr.settings.url # "file:"
  /\ last.ret \in {"ok", "ENOENT"}

\* C7: whenever a synchronous network send has returned, neither the
\* sentinel file nor the content file exists.
C7_NoTempFiles ==
  SyncSendReturned => (~syncFile /\ contentFile = NoFile)

\* A synchronous network send has returned after the worker reported an
\* error: the content file was read and both files are gone.
C7_Witness ==
  /\ SyncSendReturned
  /\ last.val = "err"
  /\ xhr.status = 503
  /\ ~syncFile /\ contentFile = NoFile

\* C8: a synchronous network send whose worker reported an error returns
\* with status 503, the error flag set, readyState DONE and error then
\* loadend dispatched; and a send that is still blocked has a worker that
\* will remove the sentinel, so that the send does not block forever.
C8_WorkerFailure ==
  /\ (SyncSendReturned /\ last.val = "err")
       => /\ last.ret = "ok"
          /\ xhr.status = 503
          /\ xhr.errorFlag
          /\ xhr.readyState = DONE
          /\ Dispatched(xhr.log) = <<"readystatechange", "error", "loadend">>
  /\ (pc = "spin" /\ syncFile) => worker.state \in {"running", "writing", "written"}

\* C9: a transport error of the asynchronous network request of the
\* current cycle that is not retried sets the error flag and status 0,
\* moves readyState to DONE and dispatches readystatechange, error and
\* loadend, in this order and nothing else (no load).
C9_TransportError ==
  [][(pc = "idle" /\ last'.op \in {"reqerror", "resperror"} /\ ~last'.stale
        /\ last'.ret # "retry" /\ xhr.settings.async)
       => /\ last'.ret = "ok"
          /\ xhr'.errorFlag
          /\ xhr'.status = 0
          /\ xhr'.readyState = DONE
          /\ Dispatched(xhr'.log) = <<"readystatechange", "error", "loadend">>]_vars

\* C10: with the header check enabled, readyState OPENED and no send of
\* the cycle begun, setRequestHeader with a name whose lower-case form is
\* forbidden returns false and leaves the header table unchanged, and with
\* any other name returns true and stores the value under the name as written.
C10_SetRequestHeader ==
  [][(pc = "idle" /\ last'.op = "setRequestHeader" /\ ~xhr.disableHeaderCheck
        /\ xhr.readyState = OPENED /\ ~sent)
       => IF toLowerCase(last'.arg) \in forbiddenRequestHeaders
          THEN last'.ret = "false" /\ xhr'.headers = xhr.headers
          ELSE /\ last'.ret = "true"
               /\ xhr'.headers = SetHeader(xhr.headers, last'.arg, last'.val)]_vars

\* C11: setRequestHeader called before open (readyState UNSENT) or after
\* a send of the cycle has begun throws InvalidState and leaves the header
\* table unchanged, whatever the header name and the transport.
C11_SetRequestHeaderRejected ==
  [][(pc = "idle" /\ last'.op = "setRequestHeader"
        /\ (xhr.readyState = UNSENT \/ sent))
       => /\ last'.ret = "InvalidState"
          /\ xhr'.headers = xhr.headers]_vars

\* C12: an open with a forbidden method throws SecurityError, leaves
\* readyState at UNSENT and keeps the request settings of before the call.
C12_ForbiddenMethod ==
  [][(pc = "idle" /\ last'.op = "open" /\ last'.val \in forbiddenRequestMethods)
       => /\ last'.ret = "SecurityError"
          /\ xhr'.readyState = UNSENT
          /\ xhr'.settings = xhr.settings]_vars

\* An open with a forbidden method was called while a transfer was in
\* flight: the transfer was aborted, readyState is UNSENT and the settings
\* are those of the earlier open.
C12_Witness ==
  /\ last.op = "open" /\ last.val = "TRACE" /\ last.ret = "SecurityError"
  /\ Dispatched(xhr.log) = <<"readystatechange", "abort", "loadend">>
  /\ xhr.readyState = UNSENT
  /\ xhr.settings.method = "POST"

\* A local file read of the current cycle has just failed.
FileReadFailed(l) ==
  \/ l.op = "fileerr" /\ ~l.stale
  \/ l.op = "send" /\ l.val = "ENOENT"

\* C18: when the read of a local file fails, asynchronously or
\* synchronously, the request is at DONE with the error flag set, error and
\* then loadend were dispatched, and status is 0.
C18_FileReadFailure ==
  [][(pc = "idle" /\ FileReadFailed(last'))
       => /\ xhr'.readyState = DONE
          /\ xhr'.errorFlag
          /\ Dispatched(xhr'.log) = <<"readystatechange", "error", "loadend">>
          /\ xhr'.status = 0]_vars

\* A transport callback reports a failure of its transfer.
FailureOps == {"resperror", "reqerror", "fileerr"}

\* C19: no transport callback lets an exception escape; a failure of the
\* transfer of the current cycle that is not retried is reported by
\* reaching DONE with the error flag set and the error event dispatched.
C19_NoEscape ==
  [][(pc = "idle" /\ last'.op \in TransportOps)
       => /\ last'.ret \in {"ok", "retry"}
          /\ (last'.op \in FailureOps /\ ~last'.stale /\ last'.ret = "ok")
               => /\ xhr'.readyState = DONE
                  /\ xhr'.errorFlag
                  /\ \E i \in 1..Len(xhr'.log) :
                       xhr'.log[i].kind = "dispatch" /\ xhr'.log[i].ev = "error"]_vars

\* The send reaches the scheme dispatch of lines 388-417 and fails there.
BadTarget(x) ==
  /\ x.readyState = OPENED /\ ~x.sendFlag
  /\ \/ x.settings.url \notin {"https:", "http:", "file:", ""}
     \/ x.settings.url = "file:" /\ x.settings.method # "GET"

\* C20: a send whose URL has an unsupported scheme, or a file URL with a
\* method other than GET, throws; no transfer, file read or worker is
\* started, readyState stays OPENED, the send flag stays clear and no event
\* is dispatched.
C20_BadTarget ==
  [][(pc = "idle" /\ last'.op = "send" /\ BadTarget(xhr))
       => /\ last'.ret \in {"ProtocolError", "MethodError"}
          /\ xhr'.readyState = OPENED
          /\ ~xhr'.sendFlag
          /\ xhr'.log = <<>>
          /\ Untouched(xhr', xhr)
          /\ transfers' = transfers
          /\ pc' = "idle" /\ ~syncFile' /\ worker' = worker]_vars

\* A send of POST to a file URL has thrown and left the object at OPENED.
C20_Witness ==
  /\ last.op = "send" /\ last.ret = "MethodError"
  /\ xhr.settings.url = "file:" /\ xhr.settings.method = "POST"
  /\ xhr.readyState = OPENED /\ ~xhr.sendFlag
  /\ Pending(transfers) = 0

\* The scheme of the transport a request was handed to.
Transport(q) == IF q.ssl THEN "https:" ELSE "http:"

\* C13: a redirect response (302, 303, 307) issues exactly one request, to
\* the URL of the Location header, with method GET after a 303 and the
\* method of the request settings otherwise, with the header table of the
\* object; readyState and status are unchanged and no event is dispatched.
C13_Redirect ==
  [][(pc = "idle" /\ last'.op = "redirect")
       => /\ Len(xhr'.issued) = 1
          /\ LET q == xhr'.issued[1] IN
             /\ q.ended
             /\ q.url = last'.val
             /\ Transport(q) = last'.val
             /\ q.method = IF q.status = 303 THEN "GET" ELSE xhr.settings.method
             /\ q.headers = xhr.headers
          /\ xhr'.readyState = xhr.readyState
          /\ xhr'.status = xhr.status
          /\ xhr'.log = <<>>]_vars

\* C14: an error of the request of the current cycle is retried exactly
\* when it is a connection reset on a reused socket and the failed request
\* is not itself the retry: then one request is issued and sent and
\* readyState is unchanged; every other error, a reset of the retry
\* included, is terminal (DONE with the error flag) and issues no request.
C14_RetryOnce ==
  [][(pc = "idle" /\ last'.op = "reqerror" /\ ~last'.stale)
       => IF /\ last'.val = "ECONNRESET"
             /\ xhr.request.reusedSocket
             /\ last'.arg = <<"req">>
          THEN /\ last'.ret = "retry"
               /\ Len(xhr'.issued) = 1
               /\ xhr'.issued[1].ended
               /\ xhr'.readyState = xhr.readyState
          ELSE /\ last'.ret = "ok"
               /\ xhr'.issued = <<>>
               /\ xhr'.readyState = DONE
               /\ xhr'.errorFlag]_vars

\* A step that delivered the bytes of a file: the callback of an
\* asynchronous read, or a synchronous send that read the file.
FileRead(l) ==
  \/ l.op = "filecb"
  \/ l.op = "send" /\ l.ret = "ok" /\ l.val \in {"exact", "pooled"}

\* C15: when a file read, asynchronous or synchronous, delivers its bytes
\* to an object with responseType 'arraybuffer' and leaves it at DONE, the
\* status is 200 and the response is an ArrayBuffer whose length is the
\* file's byte count and whose bytes are the file's bytes in order.
C15_FileBytes ==
  [][(FileRead(last') /\ xhr'.responseType = "arraybuffer" /\ xhr'.readyState = DONE)
       => /\ xhr'.status = 200
          /\ xhr'.response.kind = "ArrayBuffer"
          /\ Len(xhr'.response.bytes) = Len(last'.arg)
          /\ xhr'.response.bytes = last'.arg]_vars

\* An asynchronous read has delivered a file of at least two bytes in a
\* Buffer cut from a larger allocation, and the object is at DONE.
C15_Witness ==
  /\ last.op = "filecb" /\ last.val = "pooled" /\ Len(last.arg) >= 2
  /\ xhr.responseType = "arraybuffer" /\ xhr.readyState = DONE
  /\ xhr.settings.url = "file:" /\ xhr.settings.async
  /\ xhr.response = ArrayBufferResponse(last.arg)

\* C16: when a synchronous network send returns with the response the
\* worker wrote and responseType is 'arraybuffer', the response is an
\* ArrayBuffer of exactly the bytes of the body the worker received.
C16_SyncBytes ==
  [][(/\ pc = "spin" /\ last'.op = "send" /\ last'.ret = "ok" /\ last'.val = "ok"
      /\ xhr'.responseType = "arraybuffer")
       => xhr'.response = ArrayBufferResponse(worker.responseData)]_vars

\* The callbacks a dispatch invoked or handed to timers: the entries of the
\* log between the dispatch at position i and the next dispatch or
\* readyState assignment.
DispatchEnd(log, i) ==
  IF \E j \in (i + 1)..Len(log) : log[j].kind \in {"dispatch", "set"}
  THEN CHOOSE j \in (i + 1)..Len(log) :
         /\ log[j].kind \in {"dispatch", "set"}
         /\ \A m \in (i + 1)..(j - 1) : log[m].kind \notin {"dispatch", "set"}
  ELSE Len(log) + 1

Invocations(log, i) == SubSeq(log, i + 1, DispatchEnd(log, i) - 1)

\* Every dispatch of the step takes the on<event> handler first, if one is
\* set, and then every place of the listener list once, in list order.
DispatchOrder(x) ==
  \A i \in 1..Len(x.log) :
    (x.log[i].kind = "dispatch" /\ x.log[i].ev \in RegEvents)
      => LET cbs == Invocations(x.log, i)
             h == IF x.onhandler[x.log[i].ev] # NoCallback THEN 1 ELSE 0
         IN /\ Len(cbs) = h + Len(x.listeners[x.log[i].ev])
            /\ \A m \in 1..Len(cbs) :
                 cbs[m].who = m - h /\ cbs[m].kind \in {"call", "defer"}

\* The callbacks the step deferred are the last timers of the queue, in the
\* order in which they were deferred.
TimersInOrder(x) ==
  LET d == SelectSeq(x.log, LAMBDA e : e.kind = "defer")
      t == x.timers
  IN /\ Len(t) >= Len(d)
     /\ \A m \in 1..Len(d) :
          LET tm == t[Len(t) - Len(d) + m]
          IN tm.ev = d[m].ev /\ tm.who = d[m].who

\* C17: every dispatch takes the on<event> handler before the listeners
\* and the listeners in registration order, once for each registration;
\* what it defers runs in that order, and every timer invokes the callback
\* that was registered in its place when the event was dispatched.
C17_Order ==
  [][/\ DispatchOrder(xhr')
     /\ TimersInOrder(xhr')
     /\ (last'.op = "timer")
          => /\ xhr'.timers = Tail(xhr.timers)
             /\ last'.ret = "ok"
             /\ last'.val = Head(xhr.timers).cb]_vars

\* C21 as stated: every assignment of readyState dispatches
\* readystatechange, once and before any other event, when the request is
\* asynchronous or the new state is below OPENED or is DONE; otherwise, for
\* a synchronous request at OPENED, HEADERS_RECEIVED or LOADING, it
\* dispatches nothing.
C21_Notify ==
  \A i \in 1..Len(xhr.log) :
    (xhr.log[i].kind = "set")
      => LET d == DispatchedAfter(xhr.log, i)
         IN IF xhr.log[i].async \/ xhr.log[i].rs < OPENED \/ xhr.log[i].rs = DONE
            THEN /\ Len(d) >= 1 /\ d[1] = "readystatechange"
                 /\ \A m \in 2..Len(d) : d[m] # "readystatechange"
            ELSE d = <<>>

\* C21, amended: the only assignment of a state below OPENED is the reset
\* to UNSENT at the end of abort, which dispatches nothing in either mode;
\* every other assignment dispatches readystatechange, once and before any
\* other event, when the request is asynchronous or the new state is DONE,
\* and nothing for a synchronous request at OPENED, HEADERS_RECEIVED or
\* LOADING.
C21_NotifyExceptReset ==
  \A i \in 1..Len(xhr.log) :
    (xhr.log[i].kind = "set")
      => LET d == DispatchedAfter(xhr.log, i)
         IN /\ (xhr.log[i].rs < OPENED)
                 => (i = Len(xhr.log) \/ xhr.log[i + 1].kind = "set")
            /\ IF xhr.log[i].rs >= OPENED /\ (xhr.log[i].async \/ xhr.log[i].rs = DONE)
               THEN /\ Len(d) >= 1 /\ d[1] = "readystatechange"
                    /\ \A m \in 2..Len(d) : d[m] # "readystatechange"
               ELSE d = <<>>

\* An open with async = false has set OPENED and dispatched nothing for it.
C21_Witness ==
  /\ last.op = "open" /\ last.ret = "ok" /\ ~xhr.settings.async
  /\ xhr.readyState = OPENED
  /\ \E i \in 1..Len(xhr.log) :
       /\ xhr.log[i].kind = "set" /\ xhr.log[i].rs = OPENED /\ ~xhr.log[i].async
       /\ DispatchedAfter(xhr.log, i) = <<>>

\* What user code reads of the result of a cycle.
ResultFields(x) == <<x.status, x.responseText, x.response>>

\* The step dispatched no event.
NoEvent(x) == Dispatched(x.log) = <<>>

\* C22: a callback of a transfer that was in flight when open was called
\* (the aborted flag is clear: no abort came after that open) leaves
\* readyState, status and the response fields as they are and dispatches
\* no event.
C22_StaleAfterOpen ==
  [][(pc = "idle" /\ last'.op \in TransportOps /\ last'.stale /\ ~xhr.abortedFlag)
       => /\ xhr'.readyState = xhr.readyState
          /\ ResultFields(xhr') = ResultFields(xhr)
          /\ NoEvent(xhr')]_vars

\* C24: a callback of a transfer that arrives after abort and before the
\* next open (the aborted flag is set) leaves readyState at UNSENT,
\* dispatches no event and leaves status, responseText and response as
\* abort left them.
C24_LateAfterAbort ==
  [][(pc = "idle" /\ last'.op \in TransportOps /\ last'.stale /\ xhr.abortedFlag)
       => /\ xhr.readyState = UNSENT /\ xhr'.readyState = UNSENT
          /\ NoEvent(xhr')
          /\ ResultFields(xhr') = ResultFields(xhr)]_vars

\* C23: between steps the send flag is set only at OPENED,
\* HEADERS_RECEIVED or LOADING (never at UNSENT or DONE), and a send that
\* directly follows a successful open does not throw InvalidState.
C23_SendFlag ==
  [][/\ (pc' = "idle" /\ xhr'.sendFlag)
          => xhr'.readyState \in {OPENED, HEADERS_RECEIVED, LOADING}
     /\ (pc = "idle" /\ last.op = "open" /\ last.ret = "ok" /\ last'.op = "send")
          => last'.ret # "InvalidState"]_vars

\* C26: while a synchronous send is blocked, the sentinel is gone only
\* when the content file holds a complete result, a success envelope or an
\* error marker: a worker that has not finished writing has not removed
\* the sentinel.
C26_WrittenBeforeUnlink ==
  /\ (pc = "spin" /\ ~syncFile) => contentFile.kind \in {"ok", "err"}
  /\ (pc = "spin" /\ worker.state \in {"running", "writing"}) => syncFile

\* The worker has written a success envelope and removed the sentinel; the
\* caller's spin-wait is about to end.
C26_Witness ==
  /\ pc = "spin" /\ ~syncFile
  /\ worker.state = "finished"
  /\ contentFile.kind = "ok" /\ contentFile.statusCode = 200

\* C27: every timer of a deferred dispatch invokes the callback that was
\* registered in its place, as the on<event> handler or at that index of
\* the listener list, when the event was dispatched: it does not fail and
\* it invokes no other callback.
C27_DeferredCallbacks ==
  [][(pc = "idle" /\ last'.op = "timer")
       => /\ last'.ret = "ok"
          /\ last'.val = Head(xhr.timers).cb]_vars

\* The step moved readyState to DONE and dispatched loadend there.
LoadendAtDone ==
  /\ LogReachedDone(xhr.log)
  /\ \E i \in 1..Len(xhr.log) :
       xhr.log[i].kind = "dispatch" /\ xhr.log[i].ev = "loadend" /\ xhr.log[i].rs = DONE

\* C25: an asynchronous send that was accepted and has not reached DONE
\* leads to a step that sets DONE and dispatches loadend, or to a call of
\* abort or open, when every request sent is answered, every response is
\* ended and every timer runs.
C25_Completes ==
  (sent /\ ~reachedDone) ~> (LoadendAtDone \/ ~sent)

====
